---- MODULE Spec2Model ----
(***************************************************************************)
(* Recommendation service: the Recommendation table (service/models.py)   *)
(* and the REST handlers over it (service/routes.py).                     *)
(*                                                                         *)
(* A request is handled by one database session.  A handler that writes   *)
(* runs in two steps: Start* is everything up to the call of              *)
(* db.session.commit() (content-type check, find, in-memory assignments), *)
(* Commit* is the flush, the commit and the serialisation of the answer.  *)
(* Handlers of different sessions interleave between the two steps.       *)
(***************************************************************************)
EXTENDS Integers, Sequences, FiniteSets, TLC

VARIABLES rows,  \* the committed rows of the recommendation table
          seq,   \* next value of the id sequence of the table
          sess,  \* per session: the handler in flight and its loaded object
          last   \* the request completed last, with its response

vars == <<rows, seq, sess, last>>

----------------------------------------------------------------------------
(* Bounds *)

MaxId == 2    \* inserts are attempted while the id sequence is <= MaxId
MaxReq == 3   \* number of requests handled in one behaviour

Sessions == {"s1", "s2"}

----------------------------------------------------------------------------
(* JSON / column values: <<>> is null (None), <<v>> is the value v. *)

NULL == <<>>

Val(x) == x[1]

\* models.py:106-112, the order in which deserialize reads the keys
Fields == <<"customer_id", "product_id", "product_name", "recommend_product_id",
            "recommendation_name", "recommend_type", "rec_success">>

FieldSet == {Fields[i] : i \in 1..Len(Fields)}

Columns == FieldSet \cup {"id"}

\* Recommendation(): every attribute is None until assigned
NewRecommendation == [c \in Columns |-> NULL]

\* HTTP status codes (service.common.status)
HTTP_200_OK == 200
HTTP_201_CREATED == 201
HTTP_204_NO_CONTENT == 204
HTTP_400_BAD_REQUEST == 400
HTTP_404_NOT_FOUND == 404
HTTP_415_UNSUPPORTED_MEDIA_TYPE == 415
HTTP_500_INTERNAL_SERVER_ERROR == 500

\* rec_success limits of the like / dislike handlers
LIKE_MAX == 100
DISLIKE_MIN == 0

----------------------------------------------------------------------------
(* Request inputs *)

JSON == "application/json"

\* "none": the header is absent
ContentTypes == {JSON, "application/json; charset=utf-8", "text/plain", "none"}

PLaptop ==
  [customer_id |-> <<1>>, product_id |-> <<101>>, product_name |-> <<"laptop">>,
   recommend_product_id |-> <<301>>, recommendation_name |-> <<"mouse">>,
   recommend_type |-> <<"Down-Sell">>, rec_success |-> <<99>>]

PZero ==
  [customer_id |-> <<0>>, product_id |-> <<0>>, product_name |-> <<"">>,
   recommend_product_id |-> <<0>>, recommendation_name |-> <<"">>,
   recommend_type |-> <<"">>, rec_success |-> <<0>>]

\* all seven keys, one value null
PNullName == [PLaptop EXCEPT !.product_name = NULL]

\* all seven keys and an "id" key
PWithId == [k \in Columns |-> IF k = "id" THEN <<1>> ELSE PLaptop[k]]

\* rec_success missing
PMissing == [k \in FieldSet \ {"rec_success"} |-> PLaptop[k]]

CreatePayloads == {PLaptop, PZero, PNullName, PWithId, PMissing}

\* all seven keys but one
MissingOne == {[k \in FieldSet \ {f} |-> PLaptop[k]] : f \in FieldSet}

\* a JSON body that is not an object (a string, an array, null), kept as the
\* name of its Python type under a key that no object of the inputs has
NonObject(type) == [k \in {"$type"} |-> <<type>>]

NonObjects == {NonObject("str"), NonObject("list"), NonObject("NoneType")}

\* POST requests: a content type and a body
CreateRequests ==
  {<<JSON, data>> : data \in CreatePayloads \cup MissingOne \cup NonObjects}
    \cup {<<ctype, PLaptop>> : ctype \in ContentTypes \ {JSON}}
    \cup {<<"text/plain", PMissing>>}

EmptyBody == [k \in {} |-> NULL]

UpdateBodies ==
  { EmptyBody,
    [product_name |-> <<"">>, rec_success |-> <<0>>],
    [recommend_type |-> <<"Cross-Sell">>, rec_success |-> <<150>>],
    [recommendation_name |-> NULL],
    [id |-> <<2>>, customer_id |-> <<0>>] }

\* a request without a body: no bytes for request.get_json() to decode
NoBody == [k \in {"$raw"} |-> <<"">>]

\* PUT requests: a content type and a body
UpdateRequests ==
  {<<JSON, data>> : data \in UpdateBodies \cup {NonObject("NoneType"), NoBody}}
    \cup {<<ctype, [product_name |-> <<"">>, rec_success |-> <<0>>]>> :
            ctype \in ContentTypes \ {JSON}}

LinkTargets == {302}

\* the Content-Type header of a PUT that carries no body (link, like, dislike)
PutHeaders == {"none", "text/plain"}

\* DELETE by pair: a product_id and a recommend_product_id
PairRequests == {<<101, 301>>, <<101, 302>>}

ReqIds == 1..MaxId

\* ids a caller may have put on an object before calling create()
\* (tests/factories.py:17 numbers its objects from 0)
PresetIds == {<<0>>, <<1>>}

----------------------------------------------------------------------------
(* service/models.py *)

\* Recommendation.find: session.get by primary key
Find(rs, by_id) ==
  IF \E r \in rs : r.id = <<by_id>>
    THEN <<CHOOSE r \in rs : r.id = <<by_id>>>>
    ELSE NULL

\* Recommendation.serialize
Serialize(obj) ==
  [id |-> obj.id,
   customer_id |-> obj.customer_id,
   product_id |-> obj.product_id,
   product_name |-> obj.product_name,
   recommendation_name |-> obj.recommendation_name,
   recommend_product_id |-> obj.recommend_product_id,
   recommend_type |-> obj.recommend_type,
   rec_success |-> obj.rec_success]

\* the first key deserialize fails to read (KeyError), 0 if none
FirstMissing(data) ==
  IF \A i \in 1..Len(Fields) : Fields[i] \in DOMAIN data
    THEN 0
    ELSE CHOOSE i \in 1..Len(Fields) :
           /\ Fields[i] \notin DOMAIN data
           /\ \A j \in 1..(i - 1) : Fields[j] \in DOMAIN data

\* data is a dictionary: data["customer_id"] raises no TypeError
IsDict(data) == "$type" \notin DOMAIN data

\* the message of the DataValidationError deserialize raises, <<>> if none;
\* the text of a TypeError tells the type of the body
DeserializeError(data) ==
  IF ~IsDict(data)
    THEN <<"Invalid Recommendation: body of request contained bad or no data ",
           Val(data["$type"])>>
  ELSE IF FirstMissing(data) # 0
    THEN <<"Invalid Recommendation: missing ", Fields[FirstMissing(data)]>>
  ELSE <<>>

Deserialize_Swapped(obj, data) ==
  [obj EXCEPT !.customer_id = data["customer_id"],
              !.product_id = data["product_id"],
              !.product_name = data["recommendation_name"],
              !.recommend_product_id = data["recommend_product_id"],
              !.recommendation_name = data["product_name"],
              !.recommend_type = data["recommend_type"],
              !.rec_success = data["rec_success"]]

\* Recommendation.deserialize on a dictionary holding all seven keys
Deserialize(obj, data) ==
  [obj EXCEPT !.customer_id = data["customer_id"],
              !.product_id = data["product_id"],
              !.product_name = data["product_name"],
              !.recommend_product_id = data["recommend_product_id"],
              !.recommendation_name = data["recommendation_name"],
              !.recommend_type = data["recommend_type"],
              !.rec_success = data["rec_success"]]

ResetId_Keep(obj) == obj

\* create(): self.id = None
ResetId(obj) == [obj EXCEPT !.id = NULL]

\* nullable=False on the seven columns
NotNullOK(obj) == \A f \in FieldSet : obj[f] # NULL

\* primary_key=True: the id of an inserted row, taken from the sequence
\* when the object carries none
InsertId(obj, s) == IF obj.id = NULL THEN <<s>> ELSE obj.id

NextVal(obj, s) == IF obj.id = NULL THEN s + 1 ELSE s

PrimaryKeyOK(rs, id) == \A r \in rs : r.id # id

\* the attributes the unit of work writes: those that differ from the
\* values loaded
Dirty(obj, loaded) == {c \in Columns : obj[c] # loaded[c]}

\* rec_success written as an increment of the stored value
UpdateRow_Increment(rs, obj, loaded) ==
  {IF r.id = loaded.id
     THEN [c \in Columns |->
             IF c \notin Dirty(obj, loaded) THEN r[c]
             ELSE IF c = "rec_success"
               THEN <<Val(r[c]) + Val(obj[c]) - Val(loaded[c])>>
             ELSE obj[c]]
     ELSE r : r \in rs}

\* UPDATE ... SET <dirty columns> WHERE id = <loaded id>
UpdateRow(rs, obj, loaded) ==
  {IF r.id = loaded.id
     THEN [c \in Columns |-> IF c \in Dirty(obj, loaded) THEN obj[c] ELSE r[c]]
     ELSE r : r \in rs}

\* DELETE without the WHERE clause
DeleteRow_All(rs, obj) == {}

\* DELETE ... WHERE id = <id>
DeleteRow(rs, obj) == {r \in rs : r.id # obj.id}

----------------------------------------------------------------------------
(* Sessions and responses *)

IdleSession ==
  [pc |-> "idle", op |-> "none", id |-> 0, data |-> EmptyBody,
   obj |-> NewRecommendation, loaded |-> NewRecommendation, ctype |-> "none"]

NoLocation == <<>>

\* url_for("get_recommendations", recommendation_id=id)
UrlFor(id) == <<"recommendations", Val(id)>>

\* ctype is the Content-Type header of the request, "none" when it has none;
\* a POST or PUT is sent with one of ContentTypes or PutHeaders
Response(op, id, data, status, exc, msg, body, location) ==
  [n |-> last.n + 1, op |-> op, id |-> id, data |-> data, status |-> status,
   exc |-> exc, msg |-> msg, body |-> body, location |-> location, ctype |-> "none"]

\* the response to a request sent with the header ctype
Typed(resp, ctype) == [resp EXCEPT !.ctype = ctype]

InFlight == Cardinality({s \in Sessions : sess[s].pc # "idle"})

CanStart(s) == sess[s].pc = "idle" /\ last.n + InFlight < MaxReq

\* the handler returns or aborts without a commit
Finish(s, resp) ==
  /\ last' = IF sess[s].pc = "commit" THEN Typed(resp, sess[s].ctype) ELSE resp
  /\ sess' = [sess EXCEPT ![s] = IdleSession]

Reply(s, resp) == Finish(s, resp) /\ UNCHANGED <<rows, seq>>

\* the handler goes on to db.session.commit()
PendingTyped(s, ctype, op, id, data, obj, loaded) ==
  /\ sess' = [sess EXCEPT ![s] = [pc |-> "commit", op |-> op, id |-> id,
                                   data |-> data, obj |-> obj, loaded |-> loaded,
                                   ctype |-> ctype]]
  /\ UNCHANGED <<rows, seq, last>>

Pending(s, op, id, data, obj, loaded) ==
  PendingTyped(s, "none", op, id, data, obj, loaded)

\* compares the media type only, whatever parameters follow it
ContentTypeOK_Mimetype(ctype) == ctype \in {JSON, "application/json; charset=utf-8"}

\* request.headers["Content-Type"] == content_type
ContentTypeOK(ctype) == ctype = JSON

UnsupportedMediaType(op, id, data, ctype) ==
  Typed(Response(op, id, data, HTTP_415_UNSUPPORTED_MEDIA_TYPE, "none",
                 <<"Content-Type must be ", JSON>>, <<>>, NoLocation), ctype)

NotFound(op, id, data) ==
  Response(op, id, data, HTTP_404_NOT_FOUND, "none",
           <<"Recommendation with id '", id, "' was not found.">>, <<>>, NoLocation)

\* the except branch of create / update / delete, after the rollback: the
\* exception leaves the handler (status 0: the HTTP code is chosen by the
\* error handlers, outside the handlers)
StorageFailure(op, id, data, cause) ==
  Response(op, id, data, 0, "DataValidationError", <<cause>>, <<>>, NoLocation)

Rollback_Keep(before, attempted) == attempted

\* db.session.rollback(): the table keeps the rows it had before the attempt
Rollback(before, attempted) == before

Ok(op, id, data, obj) ==
  Response(op, id, data, HTTP_200_OK, "none", <<>>, <<Serialize(obj)>>, NoLocation)

----------------------------------------------------------------------------
(* Initial state: an empty table *)

Init ==
  /\ rows = {}
  /\ seq = 1
  /\ sess = [s \in Sessions |-> IdleSession]
  /\ last = [n |-> 0, op |-> "none", id |-> 0, data |-> EmptyBody, status |-> 0,
             exc |-> "none", msg |-> <<>>, body |-> <<>>, location |-> NoLocation,
             ctype |-> "none"]

----------------------------------------------------------------------------
(* POST /recommendations: create_recommendations, up to the commit *)

PendingCreates ==
  Cardinality({s \in Sessions : sess[s].pc = "commit" /\ sess[s].op \in {"create", "model_create"}})

\* a body without rec_success is read with the column's default, 0
StartCreate_Defaulted(s, ctype, data) ==
  /\ CanStart(s)
  /\ seq + PendingCreates <= MaxId
  /\ LET filled == IF IsDict(data) /\ FieldSet \ DOMAIN data = {"rec_success"}
                     THEN [k \in FieldSet |-> IF k \in DOMAIN data THEN data[k] ELSE <<0>>]
                     ELSE data
     IN  IF ~ContentTypeOK(ctype)
           THEN Reply(s, UnsupportedMediaType("create", 0, data, ctype))
         ELSE IF DeserializeError(filled) # <<>>
           THEN Reply(s, Typed(Response("create", 0, data, 0, "DataValidationError",
                                        DeserializeError(filled), <<>>, NoLocation), ctype))
         ELSE PendingTyped(s, ctype, "create", 0, data,
                           ResetId(Deserialize(NewRecommendation, filled)), NewRecommendation)

StartCreate(s, ctype, data) ==
  /\ CanStart(s)
  /\ seq + PendingCreates <= MaxId
  /\ IF ~ContentTypeOK(ctype)
       THEN Reply(s, UnsupportedMediaType("create", 0, data, ctype))
     ELSE IF DeserializeError(data) # <<>>
       THEN Reply(s, Typed(Response("create", 0, data, 0, "DataValidationError",
                                    DeserializeError(data), <<>>, NoLocation), ctype))
     ELSE PendingTyped(s, ctype, "create", 0, data,
                       ResetId(Deserialize(NewRecommendation, data)), NewRecommendation)

\* Recommendation(id=preset, ...).create() called on the model directly
ModelCreate(s, preset, data) ==
  /\ CanStart(s)
  /\ seq + PendingCreates <= MaxId
  /\ Pending(s, "model_create", 0, data,
             ResetId(Deserialize([NewRecommendation EXCEPT !.id = preset], data)),
             NewRecommendation)

\* create(): db.session.add(self); db.session.commit(), and the 201 answer.
\* fault: the commit fails for a cause outside the request (connection lost);
\* a constraint the row violates fails it with an IntegrityError.
CommitCreate(s) ==
  /\ sess[s].pc = "commit"
  /\ sess[s].op \in {"create", "model_create"}
  /\ \E fault \in BOOLEAN :
       LET op == sess[s].op
           data == sess[s].data
           obj == sess[s].obj
           row == [obj EXCEPT !.id = InsertId(obj, seq)]
       IN  IF fault
             THEN /\ rows' = Rollback(rows, rows \cup {row})
                  /\ seq' \in {seq, NextVal(obj, seq)}
                  /\ Finish(s, StorageFailure(op, 0, data, "OperationalError"))
           ELSE IF ~NotNullOK(obj) \/ ~PrimaryKeyOK(rows, row.id)
             THEN /\ rows' = Rollback(rows, rows \cup {row})
                  /\ seq' = NextVal(obj, seq)
                  /\ Finish(s, StorageFailure(op, 0, data, "IntegrityError"))
           ELSE /\ rows' = rows \cup {row}
                /\ seq' = NextVal(obj, seq)
                /\ Finish(s, Response(op, 0, data,
                                      IF op = "create" THEN HTTP_201_CREATED ELSE 0,
                                      "none", <<>>, <<Serialize(row)>>,
                                      IF op = "create" THEN UrlFor(row.id) ELSE NoLocation))

----------------------------------------------------------------------------
(* GET /health: health_check *)

\* answers by the state of the table: unavailable while it holds no row
Health_Ready(s) ==
  /\ CanStart(s)
  /\ Reply(s, Response("health", 0, EmptyBody,
                       IF rows = {} THEN 503 ELSE HTTP_200_OK,
                       "none", <<>>, <<[status |-> 200, message |-> "Healthy"]>>, NoLocation))

\* jsonify(status=200, message="Healthy"), 200: no query is made
Health(s) ==
  /\ CanStart(s)
  /\ Reply(s, Response("health", 0, EmptyBody, HTTP_200_OK, "none", <<>>,
                       <<[status |-> 200, message |-> "Healthy"]>>, NoLocation))

----------------------------------------------------------------------------
(* GET /recommendations/<id>: get_recommendations *)

GetRecommendations(rs, recommendation_id) ==
  IF Find(rs, recommendation_id) = NULL
    THEN NotFound("get", recommendation_id, EmptyBody)
    ELSE Ok("get", recommendation_id, EmptyBody, Val(Find(rs, recommendation_id)))

Get(s, id) ==
  /\ CanStart(s)
  /\ Reply(s, GetRecommendations(rows, id))

----------------------------------------------------------------------------
(* PUT /recommendations/<id>: update_recommendations, up to the commit *)

\* assigns a key only when its value is truthy
Merge_Truthy(obj, data) ==
  [c \in Columns |->
     IF /\ c \in FieldSet /\ c \in DOMAIN data /\ data[c] # NULL
        /\ data[c] # (IF c \in {"product_name", "recommendation_name", "recommend_type"}
                        THEN <<"">> ELSE <<0>>)
       THEN data[c] ELSE obj[c]]

\* assigns every key of the body, "id" included
Merge_WithId(obj, data) ==
  [c \in Columns |-> IF c \in DOMAIN data THEN data[c] ELSE obj[c]]

\* routes.py:281-294, only the keys present are assigned
Merge(obj, data) ==
  [c \in Columns |-> IF c \in FieldSet /\ c \in DOMAIN data THEN data[c] ELSE obj[c]]

\* request.get_json() on a body it cannot decode raises BadRequest (400),
\* described by the parse error when the application runs in debug mode and
\* by the default text of the exception otherwise
JsonLoadingFailed ==
  { <<"Failed to decode JSON object">>,
    <<"The browser (or proxy) sent a request that this server could not understand.">> }

\* `not data`: the empty object and null
Falsy(data) == DOMAIN data = {} \/ data = NonObject("NoneType")

NoData(id, data) ==
  Response("update", id, data, HTTP_400_BAD_REQUEST, "none",
           <<"No data provided for update.">>, <<>>, NoLocation)

\* reads the body before it looks the record up
StartUpdate_BodyFirst(s, ctype, id, data) ==
  /\ CanStart(s)
  /\ IF ~ContentTypeOK(ctype)
       THEN Reply(s, UnsupportedMediaType("update", id, data, ctype))
     ELSE IF data = NoBody
       THEN \E msg \in JsonLoadingFailed :
              Reply(s, Typed(Response("update", id, data, HTTP_400_BAD_REQUEST, "none",
                                      msg, <<>>, NoLocation), ctype))
     ELSE IF Falsy(data)
       THEN Reply(s, Typed(NoData(id, data), ctype))
     ELSE IF Find(rows, id) = NULL
       THEN Reply(s, Typed(NotFound("update", id, data), ctype))
     ELSE PendingTyped(s, ctype, "update", id, data,
                       Merge(Val(Find(rows, id)), data), Val(Find(rows, id)))

StartUpdate(s, ctype, id, data) ==
  /\ CanStart(s)
  /\ IF ~ContentTypeOK(ctype)
       THEN Reply(s, UnsupportedMediaType("update", id, data, ctype))
     ELSE IF Find(rows, id) = NULL
       THEN Reply(s, Typed(NotFound("update", id, data), ctype))
     ELSE IF data = NoBody
       THEN \E msg \in JsonLoadingFailed :
              Reply(s, Typed(Response("update", id, data, HTTP_400_BAD_REQUEST, "none",
                                      msg, <<>>, NoLocation), ctype))
     ELSE IF Falsy(data)
       THEN Reply(s, Typed(NoData(id, data), ctype))
     ELSE PendingTyped(s, ctype, "update", id, data,
                       Merge(Val(Find(rows, id)), data), Val(Find(rows, id)))

(* PUT /recommendations/<id>/link/<recommend_product_id> *)
\* assigns the path value to product_id
StartLink_Product(s, ctype, id, recommend_product_id) ==
  /\ CanStart(s)
  /\ LET data == [recommend_product_id |-> <<recommend_product_id>>]
     IN  IF Find(rows, id) = NULL
           THEN Reply(s, Typed(NotFound("link", id, data), ctype))
           ELSE PendingTyped(s, ctype, "link", id, data,
                        [Val(Find(rows, id)) EXCEPT !.product_id = <<recommend_product_id>>],
                        Val(Find(rows, id)))

\* checks the content type first, as the PUT of a record does
StartLink_Checked(s, ctype, id, recommend_product_id) ==
  /\ CanStart(s)
  /\ LET data == [recommend_product_id |-> <<recommend_product_id>>]
     IN  IF ~ContentTypeOK(ctype)
           THEN Reply(s, UnsupportedMediaType("link", id, data, ctype))
         ELSE IF Find(rows, id) = NULL
           THEN Reply(s, Typed(NotFound("link", id, data), ctype))
         ELSE PendingTyped(s, ctype, "link", id, data,
                           [Val(Find(rows, id)) EXCEPT
                              !.recommend_product_id = <<recommend_product_id>>],
                           Val(Find(rows, id)))

\* no check_content_type: the header is not read
StartLink(s, ctype, id, recommend_product_id) ==
  /\ CanStart(s)
  /\ LET data == [recommend_product_id |-> <<recommend_product_id>>]
     IN  IF Find(rows, id) = NULL
           THEN Reply(s, Typed(NotFound("link", id, data), ctype))
           ELSE PendingTyped(s, ctype, "link", id, data,
                        [Val(Find(rows, id)) EXCEPT
                           !.recommend_product_id = <<recommend_product_id>>],
                        Val(Find(rows, id)))

(* PUT /recommendations/<id>/like *)
Liked(obj) == [obj EXCEPT !.rec_success = <<Val(obj.rec_success) + 1>>]

\* likes up to and including LIKE_MAX
StartLike_Inclusive(s, ctype, id) ==
  /\ CanStart(s)
  /\ IF Find(rows, id) = NULL
       THEN Reply(s, Typed(NotFound("like", id, EmptyBody), ctype))
     ELSE IF Val(Val(Find(rows, id)).rec_success) <= LIKE_MAX
       THEN PendingTyped(s, ctype, "like", id, EmptyBody,
                    Liked(Val(Find(rows, id))), Val(Find(rows, id)))
     ELSE Reply(s, Typed(Ok("like", id, EmptyBody, Val(Find(rows, id))), ctype))

StartLike(s, ctype, id) ==
  /\ CanStart(s)
  /\ IF Find(rows, id) = NULL
       THEN Reply(s, Typed(NotFound("like", id, EmptyBody), ctype))
     ELSE IF Val(Val(Find(rows, id)).rec_success) < LIKE_MAX
       THEN PendingTyped(s, ctype, "like", id, EmptyBody,
                    Liked(Val(Find(rows, id))), Val(Find(rows, id)))
     ELSE Reply(s, Typed(Ok("like", id, EmptyBody, Val(Find(rows, id))), ctype))

(* PUT /recommendations/<id>/dislike *)
Disliked(obj) == [obj EXCEPT !.rec_success = <<Val(obj.rec_success) - 1>>]

\* dislikes down from DISLIKE_MIN itself
StartDislike_Inclusive(s, ctype, id) ==
  /\ CanStart(s)
  /\ IF Find(rows, id) = NULL
       THEN Reply(s, Typed(NotFound("dislike", id, EmptyBody), ctype))
     ELSE IF Val(Val(Find(rows, id)).rec_success) >= DISLIKE_MIN
       THEN PendingTyped(s, ctype, "dislike", id, EmptyBody,
                    Disliked(Val(Find(rows, id))), Val(Find(rows, id)))
     ELSE Reply(s, Typed(Ok("dislike", id, EmptyBody, Val(Find(rows, id))), ctype))

StartDislike(s, ctype, id) ==
  /\ CanStart(s)
  /\ IF Find(rows, id) = NULL
       THEN Reply(s, Typed(NotFound("dislike", id, EmptyBody), ctype))
     ELSE IF Val(Val(Find(rows, id)).rec_success) > DISLIKE_MIN
       THEN PendingTyped(s, ctype, "dislike", id, EmptyBody,
                    Disliked(Val(Find(rows, id))), Val(Find(rows, id)))
     ELSE Reply(s, Typed(Ok("dislike", id, EmptyBody, Val(Find(rows, id))), ctype))

\* the answer after a commit: the commit expired the object, serialize()
\* reloads its row
Refreshed(op, id, data, rs) ==
  IF Find(rs, id) = NULL
    THEN Response(op, id, data, HTTP_500_INTERNAL_SERVER_ERROR, "ObjectDeletedError",
                  <<>>, <<>>, NoLocation)
    ELSE Ok(op, id, data, Val(Find(rs, id)))

\* writes the object back as a whole (session.merge): inserts it when its
\* row is gone
CommitUpdate_Merge(s) ==
  /\ sess[s].pc = "commit"
  /\ sess[s].op \in {"update", "link", "like", "dislike"}
  /\ seq' = seq
  /\ \E fault \in BOOLEAN :
       LET op == sess[s].op
           id == sess[s].id
           data == sess[s].data
           obj == sess[s].obj
           loaded == sess[s].loaded
       IN  IF fault
             THEN /\ rows' = Rollback(rows, UpdateRow(rows, obj, loaded))
                  /\ Finish(s, StorageFailure(op, id, data, "OperationalError"))
           ELSE IF Dirty(obj, loaded) = {}
             THEN /\ rows' = rows
                  /\ Finish(s, Refreshed(op, id, data, rows))
           ELSE IF Find(rows, id) = NULL
             THEN /\ rows' = rows \cup {obj}
                  /\ Finish(s, Ok(op, id, data, obj))
           ELSE IF ~NotNullOK(obj)
             THEN /\ rows' = Rollback(rows, UpdateRow(rows, obj, loaded))
                  /\ Finish(s, StorageFailure(op, id, data, "IntegrityError"))
           ELSE /\ rows' = UpdateRow(rows, obj, loaded)
                /\ Finish(s, Refreshed(op, id, data, UpdateRow(rows, obj, loaded)))

\* update(): db.session.commit(), and the 200 answer. An UPDATE that matches
\* no row (the row was deleted since it was loaded) fails the flush with
\* StaleDataError
CommitUpdate(s) ==
  /\ sess[s].pc = "commit"
  /\ sess[s].op \in {"update", "link", "like", "dislike"}
  /\ seq' = seq
  /\ \E fault \in BOOLEAN :
       LET op == sess[s].op
           id == sess[s].id
           data == sess[s].data
           obj == sess[s].obj
           loaded == sess[s].loaded
       IN  IF fault
             THEN /\ rows' = Rollback(rows, UpdateRow(rows, obj, loaded))
                  /\ Finish(s, StorageFailure(op, id, data, "OperationalError"))
           ELSE IF Dirty(obj, loaded) = {}
             THEN /\ rows' = rows
                  /\ Finish(s, Refreshed(op, id, data, rows))
           ELSE IF Find(rows, id) = NULL
             THEN /\ rows' = Rollback(rows, UpdateRow(rows, obj, loaded))
                  /\ Finish(s, StorageFailure(op, id, data, "StaleDataError"))
           ELSE IF ~NotNullOK(obj)
             THEN /\ rows' = Rollback(rows, UpdateRow(rows, obj, loaded))
                  /\ Finish(s, StorageFailure(op, id, data, "IntegrityError"))
           ELSE /\ rows' = UpdateRow(rows, obj, loaded)
                /\ Finish(s, Refreshed(op, id, data, UpdateRow(rows, obj, loaded)))

----------------------------------------------------------------------------
(* DELETE /recommendations/<id>: delete_recommendations *)

\* answers 204 when the id is absent
StartDelete_Idempotent(s, id) ==
  /\ CanStart(s)
  /\ IF Find(rows, id) = NULL
       THEN Reply(s, Response("delete", id, EmptyBody, HTTP_204_NO_CONTENT, "none",
                              <<>>, <<>>, NoLocation))
       ELSE Pending(s, "delete", id, EmptyBody,
                    Val(Find(rows, id)), Val(Find(rows, id)))

StartDelete(s, id) ==
  /\ CanStart(s)
  /\ IF Find(rows, id) = NULL
       THEN Reply(s, NotFound("delete", id, EmptyBody))
       ELSE Pending(s, "delete", id, EmptyBody,
                    Val(Find(rows, id)), Val(Find(rows, id)))

\* delete(): db.session.delete(self); db.session.commit(), and the 204 answer
CommitDelete(s) ==
  /\ sess[s].pc = "commit"
  /\ sess[s].op = "delete"
  /\ seq' = seq
  /\ \E fault \in BOOLEAN :
       IF fault
         THEN /\ rows' = Rollback(rows, DeleteRow(rows, sess[s].obj))
              /\ Finish(s, StorageFailure("delete", sess[s].id, EmptyBody, "OperationalError"))
         ELSE /\ rows' = DeleteRow(rows, sess[s].obj)
              /\ Finish(s, Response("delete", sess[s].id, EmptyBody, HTTP_204_NO_CONTENT,
                                    "none", <<"Recommendation deleted successfully.">>,
                                    <<>>, NoLocation))

----------------------------------------------------------------------------
(* DELETE /recommendations/<product_id>/<recommend_product_id>:
   delete_recommendation *)

\* the two path parameters of a request
Pair(product_id, recommend_product_id) ==
  [product_id |-> <<product_id>>, recommend_product_id |-> <<recommend_product_id>>]

\* query.filter_by(product_id=..., recommend_product_id=...)
FilterBy(rs, pair) ==
  {r \in rs : /\ r.product_id = pair.product_id
              /\ r.recommend_product_id = pair.recommend_product_id}

PairNotFound(pair) ==
  Response("delete_pair", 0, pair, HTTP_404_NOT_FOUND, "none",
           <<"Recommendation with product_id '", Val(pair.product_id),
             "' and recommend_product_id '", Val(pair.recommend_product_id),
             "' was not found.">>, <<>>, NoLocation)

\* answers 204 when no row matches
StartDeletePair_Idempotent(s, product_id, recommend_product_id) ==
  /\ CanStart(s)
  /\ LET pair == Pair(product_id, recommend_product_id)
     IN  IF FilterBy(rows, pair) = {}
           THEN Reply(s, Response("delete_pair", 0, pair, HTTP_204_NO_CONTENT, "none",
                                  <<>>, <<>>, NoLocation))
           ELSE \E recommendation \in FilterBy(rows, pair) :
                  Pending(s, "delete_pair", 0, pair, recommendation, recommendation)

\* .first() of a query without ORDER BY: any one of the matching rows
StartDeletePair(s, product_id, recommend_product_id) ==
  /\ CanStart(s)
  /\ LET pair == Pair(product_id, recommend_product_id)
     IN  IF FilterBy(rows, pair) = {}
           THEN Reply(s, PairNotFound(pair))
           ELSE \E recommendation \in FilterBy(rows, pair) :
                  Pending(s, "delete_pair", 0, pair, recommendation, recommendation)

\* deletes every row that matches the pair
CommitDeletePair_AllMatching(s) ==
  /\ sess[s].pc = "commit"
  /\ sess[s].op = "delete_pair"
  /\ seq' = seq
  /\ \E fault \in BOOLEAN :
       IF fault
         THEN /\ rows' = rows
              /\ Finish(s, Response("delete_pair", 0, sess[s].data, 0, "OperationalError",
                                    <<"OperationalError">>, <<>>, NoLocation))
         ELSE /\ rows' = rows \ FilterBy(rows, sess[s].data)
              /\ Finish(s, Response("delete_pair", 0, sess[s].data, HTTP_204_NO_CONTENT,
                                    "none", <<>>, <<>>, NoLocation))

\* db.session.delete(recommendation); db.session.commit() outside any try:
\* a failing commit leaves the handler as the database exception it is, and
\* its transaction is never applied
CommitDeletePair(s) ==
  /\ sess[s].pc = "commit"
  /\ sess[s].op = "delete_pair"
  /\ seq' = seq
  /\ \E fault \in BOOLEAN :
       IF fault
         THEN /\ rows' = rows
              /\ Finish(s, Response("delete_pair", 0, sess[s].data, 0, "OperationalError",
                                    <<"OperationalError">>, <<>>, NoLocation))
         ELSE /\ rows' = DeleteRow(rows, sess[s].obj)
              /\ Finish(s, Response("delete_pair", 0, sess[s].data, HTTP_204_NO_CONTENT,
                                    "none", <<>>, <<>>, NoLocation))

----------------------------------------------------------------------------
(* GET /recommendations: list_recommendations *)

\* Query-string values of the integer filters are sequences of characters,
\* those of the string filters are strings.
DecimalDigits == {"0", "1", "2", "3", "4", "5", "6", "7", "8", "9"}

\* characters str.isdigit() accepts: the decimal digits and digits such as
\* the superscript two, which int() rejects
DigitChars == DecimalDigits \cup {"SUPERSCRIPT TWO"}

IsDigit(str) == Len(str) > 0 /\ \A i \in 1..Len(str) : str[i] \in DigitChars

DigitValue(ch) ==
  CASE ch = "0" -> 0 [] ch = "1" -> 1 [] ch = "2" -> 2 [] ch = "3" -> 3
    [] ch = "4" -> 4 [] ch = "5" -> 5 [] ch = "6" -> 6 [] ch = "7" -> 7
    [] ch = "8" -> 8 [] ch = "9" -> 9

\* int(str) raises ValueError unless every character is a decimal digit
IntParses(str) == Len(str) > 0 /\ \A i \in 1..Len(str) : str[i] \in DecimalDigits

RECURSIVE ToInt(_)
ToInt(str) ==
  IF Len(str) = 0 THEN 0
  ELSE 10 * ToInt(SubSeq(str, 1, Len(str) - 1)) + DigitValue(str[Len(str)])

\* request.args.get(k) is truthy: the parameter is present and not empty
Given(args, k) == k \in DOMAIN args /\ Len(args[k]) > 0

\* the spelling of the model's docstring and of the test factory
valid_recommend_types_Lower == <<"up-sell", "down-sell", "cross-sell">>

valid_recommend_types == <<"Up-Sell", "Down-Sell", "Cross-Sell">>

ListError(status, exc, msg) == [status |-> status, exc |-> exc, msg |-> msg, items |-> {}]

\* the rows that pass one of the filters supplied
ListMatches_Any(rs, args) ==
  {r \in rs :
     \/ \A k \in DOMAIN args : ~Given(args, k)
     \/ Given(args, "product_id") /\ r.product_id = <<ToInt(args["product_id"])>>
     \/ Given(args, "customer_id") /\ r.customer_id = <<ToInt(args["customer_id"])>>
     \/ Given(args, "recommend_type") /\ r.recommend_type = <<args["recommend_type"]>>
     \/ Given(args, "recommend_product_id") /\
          r.recommend_product_id = <<ToInt(args["recommend_product_id"])>>
     \/ Given(args, "product_name") /\ r.product_name = <<args["product_name"]>>
     \/ Given(args, "recommendation_name") /\
          r.recommendation_name = <<args["recommendation_name"]>>
     \/ /\ Given(args, "rec_success_min") /\ Given(args, "rec_success_max")
        /\ Val(r.rec_success) >= ToInt(args["rec_success_min"])
        /\ Val(r.rec_success) <= ToInt(args["rec_success_max"])}

\* the range filter with both bounds excluded
ListMatches_Exclusive(rs, args) ==
  {r \in rs :
     /\ Given(args, "product_id") => r.product_id = <<ToInt(args["product_id"])>>
     /\ Given(args, "customer_id") => r.customer_id = <<ToInt(args["customer_id"])>>
     /\ Given(args, "recommend_type") => r.recommend_type = <<args["recommend_type"]>>
     /\ Given(args, "recommend_product_id") =>
          r.recommend_product_id = <<ToInt(args["recommend_product_id"])>>
     /\ Given(args, "product_name") => r.product_name = <<args["product_name"]>>
     /\ Given(args, "recommendation_name") =>
          r.recommendation_name = <<args["recommendation_name"]>>
     /\ (Given(args, "rec_success_min") /\ Given(args, "rec_success_max")) =>
          /\ Val(r.rec_success) > ToInt(args["rec_success_min"])
          /\ Val(r.rec_success) < ToInt(args["rec_success_max"])}

\* the range filter applied bound by bound: a bound that stands alone
\* filters by itself when it is an integer
ListMatches_LoneBound(rs, args) ==
  {r \in rs :
     /\ Given(args, "product_id") => r.product_id = <<ToInt(args["product_id"])>>
     /\ Given(args, "customer_id") => r.customer_id = <<ToInt(args["customer_id"])>>
     /\ Given(args, "recommend_type") => r.recommend_type = <<args["recommend_type"]>>
     /\ Given(args, "recommend_product_id") =>
          r.recommend_product_id = <<ToInt(args["recommend_product_id"])>>
     /\ Given(args, "product_name") => r.product_name = <<args["product_name"]>>
     /\ Given(args, "recommendation_name") =>
          r.recommendation_name = <<args["recommendation_name"]>>
     /\ (Given(args, "rec_success_min") /\ IntParses(args["rec_success_min"])) =>
          Val(r.rec_success) >= ToInt(args["rec_success_min"])
     /\ (Given(args, "rec_success_max") /\ IntParses(args["rec_success_max"])) =>
          Val(r.rec_success) <= ToInt(args["rec_success_max"])}

\* the rows that pass every filter supplied (routes.py:174-224)
ListMatches(rs, args) ==
  {r \in rs :
     /\ Given(args, "product_id") => r.product_id = <<ToInt(args["product_id"])>>
     /\ Given(args, "customer_id") => r.customer_id = <<ToInt(args["customer_id"])>>
     /\ Given(args, "recommend_type") => r.recommend_type = <<args["recommend_type"]>>
     /\ Given(args, "recommend_product_id") =>
          r.recommend_product_id = <<ToInt(args["recommend_product_id"])>>
     /\ Given(args, "product_name") => r.product_name = <<args["product_name"]>>
     /\ Given(args, "recommendation_name") =>
          r.recommendation_name = <<args["recommendation_name"]>>
     /\ (Given(args, "rec_success_min") /\ Given(args, "rec_success_max")) =>
          /\ Val(r.rec_success) >= ToInt(args["rec_success_min"])
          /\ Val(r.rec_success) <= ToInt(args["rec_success_max"])}

\* the checks of one integer filter: 0 passes, else the status to answer
IntFilterCheck(args, k) ==
  IF ~Given(args, k) THEN 0
  ELSE IF ~IsDigit(args[k]) THEN HTTP_400_BAD_REQUEST
  ELSE IF ~IntParses(args[k]) THEN HTTP_500_INTERNAL_SERVER_ERROR
  ELSE 0

\* an error message that does not name the parameter
IntFilterError_Unnamed(args, k) ==
  IF IntFilterCheck(args, k) = HTTP_400_BAD_REQUEST
    THEN ListError(HTTP_400_BAD_REQUEST, "none", <<"Invalid range :()">>)
    ELSE ListError(HTTP_500_INTERNAL_SERVER_ERROR, "ValueError", <<>>)

IntFilterError(args, k) ==
  IF IntFilterCheck(args, k) = HTTP_400_BAD_REQUEST
    THEN ListError(HTTP_400_BAD_REQUEST, "none", <<"Invalid ", k>>)
    ELSE ListError(HTTP_500_INTERNAL_SERVER_ERROR, "ValueError", <<>>)

ListResult(rs, args) ==
  IF IntFilterCheck(args, "product_id") # 0 THEN IntFilterError(args, "product_id")
  ELSE IF IntFilterCheck(args, "customer_id") # 0 THEN IntFilterError(args, "customer_id")
  ELSE IF /\ Given(args, "recommend_type")
          /\ \A i \in 1..Len(valid_recommend_types) :
               valid_recommend_types[i] # args["recommend_type"]
    THEN ListError(HTTP_400_BAD_REQUEST, "none",
                   <<"Invalid recommend_type. Must be one of ", valid_recommend_types>>)
  ELSE IF IntFilterCheck(args, "recommend_product_id") # 0
    THEN IntFilterError(args, "recommend_product_id")
  ELSE IF Given(args, "rec_success_min") /\ Given(args, "rec_success_max")
    THEN IF ~IsDigit(args["rec_success_min"]) \/ ~IsDigit(args["rec_success_max"])
           THEN ListError(HTTP_400_BAD_REQUEST, "none", <<"Invalid range :()">>)
         ELSE IF ~IntParses(args["rec_success_min"]) \/ ~IntParses(args["rec_success_max"])
           THEN ListError(HTTP_500_INTERNAL_SERVER_ERROR, "ValueError", <<>>)
         ELSE IF ToInt(args["rec_success_min"]) > ToInt(args["rec_success_max"])
           THEN ListError(HTTP_400_BAD_REQUEST, "none",
                          <<"rec_success_min cannot be greater than rec_success_max">>)
         ELSE [status |-> HTTP_200_OK, exc |-> "none", msg |-> <<>>,
               items |-> {Serialize(r) : r \in ListMatches(rs, args)}]
  ELSE [status |-> HTTP_200_OK, exc |-> "none", msg |-> <<>>,
        items |-> {Serialize(r) : r \in ListMatches(rs, args)}]

NoArgs == [k \in {} |-> ""]

ListQueries ==
  { NoArgs,
    [product_id |-> <<"1", "0", "1">>],
    [recommend_type |-> "Down-Sell", customer_id |-> <<"0">>],
    [product_name |-> "laptop", rec_success_min |-> <<"1">>, rec_success_max |-> <<"9", "9">>],
    [recommend_product_id |-> <<"x">>] }

\* str(n) of a non-negative integer, as the characters of a query-string value
DigitChar(d) ==
  CASE d = 0 -> "0" [] d = 1 -> "1" [] d = 2 -> "2" [] d = 3 -> "3"
    [] d = 4 -> "4" [] d = 5 -> "5" [] d = 6 -> "6" [] d = 7 -> "7"
    [] d = 8 -> "8" [] d = 9 -> "9"

RECURSIVE Str(_)
Str(n) == IF n < 10 THEN <<DigitChar(n)>> ELSE Append(Str(n \div 10), DigitChar(n % 10))

\* a second customer's record for the same product, of another type
PUpSell ==
  [PLaptop EXCEPT !.customer_id = <<2>>, !.recommend_type = <<"Up-Sell">>,
                  !.rec_success = <<50>>]

\* a record whose recommend_type is spelled as the model and the factory
\* spell it
PLower == [PLaptop EXCEPT !.recommend_type = <<"up-sell">>]

\* the query that filters by a record's own product_id, customer_id,
\* recommend_type and recommend_product_id
OwnFilters(r) ==
  [product_id |-> Str(Val(r.product_id)), customer_id |-> Str(Val(r.customer_id)),
   recommend_type |-> Val(r.recommend_type),
   recommend_product_id |-> Str(Val(r.recommend_product_id))]

\* the query that filters by a record's own recommend_type
OwnType(r) == [recommend_type |-> Val(r.recommend_type)]

\* the orders in which query.all() may return a set of rows
Orderings(S) ==
  {q \in [1..Cardinality(S) -> S] : \A i, j \in 1..Cardinality(S) : q[i] = q[j] => i = j}

List(s, args) ==
  /\ CanStart(s)
  /\ LET res == ListResult(rows, args)
     IN  \E body \in Orderings(res.items) :
           Reply(s, Response("list", 0, args, res.status, res.exc, res.msg, body, NoLocation))

----------------------------------------------------------------------------

Next ==
  \/ \E s \in Sessions, req \in CreateRequests : StartCreate(s, req[1], req[2])
  \/ \E s \in Sessions, preset \in PresetIds : ModelCreate(s, preset, PLaptop)
  \/ \E s \in Sessions : CommitCreate(s)
  \/ \E s \in Sessions : Health(s)
  \/ \E s \in Sessions, id \in ReqIds : Get(s, id)
  \/ \E s \in Sessions, args \in ListQueries : List(s, args)
  \/ \E s \in Sessions, id \in ReqIds, req \in UpdateRequests :
       StartUpdate(s, req[1], id, req[2])
  \/ \E s \in Sessions, id \in ReqIds, t \in LinkTargets, ctype \in PutHeaders :
       StartLink(s, ctype, id, t)
  \/ \E s \in Sessions, id \in ReqIds, ctype \in PutHeaders : StartLike(s, ctype, id)
  \/ \E s \in Sessions, id \in ReqIds, ctype \in PutHeaders : StartDislike(s, ctype, id)
  \/ \E s \in Sessions : CommitUpdate(s)
  \/ \E s \in Sessions, id \in ReqIds : StartDelete(s, id)
  \/ \E s \in Sessions : CommitDelete(s)
  \/ \E s \in Sessions, req \in PairRequests : StartDeletePair(s, req[1], req[2])
  \/ \E s \in Sessions : CommitDeletePair(s)

Spec == Init /\ [][Next]_vars

(* Only like and dislike requests, on a table whose rec_success values are
   within [DISLIKE_MIN, LIKE_MAX] *)

LikeSeeds == {0, 1, 98, 99, 100}

SeedRow(id, data, v) ==
  [c \in Columns |-> IF c = "id" THEN <<id>>
                     ELSE IF c = "rec_success" THEN <<v>> ELSE data[c]]

InitLikes ==
  /\ \E a \in LikeSeeds :
       \/ rows = {SeedRow(1, PLaptop, a)}
       \/ \E b \in LikeSeeds : rows = {SeedRow(1, PLaptop, a), SeedRow(2, PZero, b)}
  /\ seq = MaxId + 1
  /\ sess = [s \in Sessions |-> IdleSession]
  /\ last = [n |-> 0, op |-> "none", id |-> 0, data |-> EmptyBody, status |-> 0,
             exc |-> "none", msg |-> <<>>, body |-> <<>>, location |-> NoLocation,
             ctype |-> "none"]

NextLikes ==
  \/ \E s \in Sessions, id \in ReqIds, ctype \in PutHeaders : StartLike(s, ctype, id)
  \/ \E s \in Sessions, id \in ReqIds, ctype \in PutHeaders : StartDislike(s, ctype, id)
  \/ \E s \in Sessions : CommitUpdate(s)

SpecLikes == InitLikes /\ [][NextLikes]_vars

(* A table that holds one or two rows, which may carry the same pair (the
   same payload posted twice) *)

InitSeeded ==
  /\ rows \in { {SeedRow(1, PLaptop, 99)},
               {SeedRow(1, PLaptop, 99), SeedRow(2, PLaptop, 99)},
               {SeedRow(1, PLaptop, 99), SeedRow(2, PLaptop, 0)},
               {SeedRow(1, PLaptop, 99), SeedRow(2, PZero, 0)} }
  /\ seq = MaxId + 1
  /\ sess = [s \in Sessions |-> IdleSession]
  /\ last = [n |-> 0, op |-> "none", id |-> 0, data |-> EmptyBody, status |-> 0,
             exc |-> "none", msg |-> <<>>, body |-> <<>>, location |-> NoLocation,
             ctype |-> "none"]

NextPairs ==
  \/ \E s \in Sessions, req \in PairRequests : StartDeletePair(s, req[1], req[2])
  \/ \E s \in Sessions : CommitDeletePair(s)
  \/ \E s \in Sessions, id \in ReqIds, t \in LinkTargets, ctype \in PutHeaders :
       StartLink(s, ctype, id, t)
  \/ \E s \in Sessions : CommitUpdate(s)

\* only delete-by-pair and link requests
SpecPairs == InitSeeded /\ [][NextPairs]_vars

NextDeletes ==
  \/ \E s \in Sessions, id \in ReqIds : StartDelete(s, id)
  \/ \E s \in Sessions : CommitDelete(s)
  \/ \E s \in Sessions, id \in ReqIds : Get(s, id)

\* only DELETE and GET requests by id
SpecDeletes == InitSeeded /\ [][NextDeletes]_vars

(* The list handler on fixed tables *)

ListTables ==
  { {},
    {SeedRow(1, PLaptop, 99)},
    {SeedRow(1, PLaptop, 99), SeedRow(2, PZero, 0)},
    {SeedRow(1, PLaptop, 99), SeedRow(2, PUpSell, 50)},
    {SeedRow(1, PLower, 75)},
    {SeedRow(1, PLaptop, 99), SeedRow(2, PLower, 75)} }

ListProbes ==
  ListQueries
    \cup {OwnFilters(r) : r \in UNION ListTables}
    \cup {OwnType(r) : r \in UNION ListTables}
    \cup { [unknown |-> "123"],
           [product_name |-> ""],
           [recommendation_name |-> "mouse", product_name |-> "laptop"],
           [recommendation_name |-> "mouse", recommend_type |-> "Up-Sell"],
           [recommend_type |-> "Up-Sell"],
           [recommend_type |-> "Cross-Sell"],
           [recommend_type |-> "invalid-value", recommend_product_id |-> <<"x">>],
           [recommend_type |-> "invalid-value", product_id |-> <<"x">>],
           [product_id |-> <<>>],
           [product_id |-> <<"-", "5">>],
           [product_id |-> <<"SUPERSCRIPT TWO">>],
           [product_id |-> <<"x">>, customer_id |-> <<"y">>],
           [customer_id |-> <<"1", ".", "0">>],
           [rec_success_min |-> <<"5", "0">>],
           [rec_success_max |-> <<"5", "0">>],
           [rec_success_min |-> <<"l", "o", "w">>],
           [rec_success_min |-> <<"1">>, rec_success_max |-> <<>>],
           [rec_success_min |-> <<"0">>, rec_success_max |-> <<"5", "0">>],
           [rec_success_min |-> <<"9", "9">>, rec_success_max |-> <<"9", "9">>],
           [rec_success_min |-> <<"9", "0">>, rec_success_max |-> <<"1", "0">>,
            product_name |-> "laptop"],
           [rec_success_min |-> <<"l", "o", "w">>, rec_success_max |-> <<"1", "0">>],
           [rec_success_min |-> <<"1", "0">>, rec_success_max |-> <<"h", "i", "g", "h">>],
           [rec_success_min |-> <<"SUPERSCRIPT TWO">>, rec_success_max |-> <<"5">>],
           [product_id |-> <<"1", "0", "1">>, rec_success_min |-> <<"l", "o", "w">>],
           [product_id |-> <<"1", "0", "1">>, rec_success_max |-> <<"5", "0">>],
           [product_id |-> <<"x">>, rec_success_max |-> <<"5">>],
           [product_id |-> <<"x">>] }

InitList ==
  /\ rows \in ListTables
  /\ seq = MaxId + 1
  /\ sess = [s \in Sessions |-> IdleSession]
  /\ last = [n |-> 0, op |-> "none", id |-> 0, data |-> EmptyBody, status |-> 0,
             exc |-> "none", msg |-> <<>>, body |-> <<>>, location |-> NoLocation,
             ctype |-> "none"]

NextList == \E s \in Sessions, args \in ListProbes : List(s, args)

SpecList == InitList /\ [][NextList]_vars

(* seed_data (models.py:253-354), called one call after the other *)

Sample(product_id, customer_id, product_name, recommendation_name, recommend_product_id, recommend_type, rec_success) ==
  [product_id |-> <<product_id>>, customer_id |-> <<customer_id>>,
   product_name |-> <<product_name>>, recommendation_name |-> <<recommendation_name>>,
   recommend_product_id |-> <<recommend_product_id>>,
   recommend_type |-> <<recommend_type>>, rec_success |-> <<rec_success>>]

sample_recommendations ==
  << Sample(101, 1, "laptop", "mouse", 301, "Down-Sell", 75),
     Sample(102, 2, "phone", "earbuds", 302, "Down-Sell", 65),
     Sample(103, 3, "camera", "tripod", 303, "Cross-Sell", 55),
     Sample(104, 4, "tablet", "stylus", 304, "Up-Sell", 45),
     Sample(105, 5, "monitor", "stand", 305, "Cross-Sell", 60),
     Sample(106, 6, "keyboard", "wrist rest", 306, "Down-Sell", 35),
     Sample(107, 7, "chair", "lumbar support", 307, "Up-Sell", 85),
     Sample(108, 8, "router", "ethernet cable", 308, "Cross-Sell", 50),
     Sample(109, 9, "printer", "ink cartridge", 309, "Down-Sell", 70),
     Sample(110, 10, "tv", "soundbar", 310, "Up-Sell", 90) >>

\* a call that returned: id is the number of samples it inserted
Seeded(n) == Response("seed", n, EmptyBody, 0, "none", <<>>, <<>>, NoLocation)

\* rec = Recommendation(); rec.deserialize(data), for the sample at index i
SeedPending(s, i) ==
  /\ sess' = [sess EXCEPT ![s] =
                [pc |-> "commit", op |-> "seed", id |-> i,
                 data |-> sample_recommendations[i],
                 obj |-> Deserialize(NewRecommendation, sample_recommendations[i]),
                 loaded |-> NewRecommendation, ctype |-> "none"]]
  /\ last' = last

\* seeds whatever the table holds
StartSeed_Always(s) ==
  /\ CanStart(s)
  /\ InFlight = 0
  /\ SeedPending(s, 1)
  /\ UNCHANGED <<rows, seq>>

\* if Recommendation.query.count() == 0: ... up to the first rec.create()
StartSeed(s) ==
  /\ CanStart(s)
  /\ InFlight = 0
  /\ IF Cardinality(rows) = 0
       THEN SeedPending(s, 1) /\ UNCHANGED <<rows, seq>>
       ELSE Reply(s, Seeded(0))

\* rec.create() of one sample, a commit of its own, and the step to the
\* next sample or the return; a commit that fails raises out of seed_data
SeedCreate(s) ==
  /\ sess[s].pc = "commit"
  /\ sess[s].op = "seed"
  /\ \E fault \in BOOLEAN :
       LET i == sess[s].id
           obj == ResetId(sess[s].obj)
           row == [obj EXCEPT !.id = InsertId(obj, seq)]
       IN  IF fault
             THEN /\ rows' = Rollback(rows, rows \cup {row})
                  /\ seq' \in {seq, NextVal(obj, seq)}
                  /\ Finish(s, StorageFailure("seed", i, sess[s].data, "OperationalError"))
           ELSE /\ rows' = rows \cup {row}
                /\ seq' = NextVal(obj, seq)
                /\ IF i = Len(sample_recommendations)
                     THEN Finish(s, Seeded(i))
                     ELSE SeedPending(s, i + 1)

InitSeed ==
  /\ \/ rows = {} /\ seq = 1
     \/ rows = {SeedRow(1, PZero, 0)} /\ seq = 2
  /\ sess = [s \in Sessions |-> IdleSession]
  /\ last = [n |-> 0, op |-> "none", id |-> 0, data |-> EmptyBody, status |-> 0,
             exc |-> "none", msg |-> <<>>, body |-> <<>>, location |-> NoLocation,
             ctype |-> "none"]

NextSeed ==
  \/ \E s \in Sessions : StartSeed(s)
  \/ \E s \in Sessions : SeedCreate(s)

SpecSeed == InitSeed /\ [][NextSeed]_vars

TypeOK ==
  /\ seq \in 1..(MaxId + 1)
  /\ \A r \in rows : DOMAIN r = Columns /\ \A c \in Columns : r[c] # NULL
  /\ last.n \in 0..MaxReq

----------------------------------------------------------------------------
(* Properties *)

\* the step completes a handler of session s that reached its commit
CommitBy(s, ops) ==
  sess[s].pc = "commit" /\ sess[s].op \in ops /\ sess'[s].pc = "idle"

\* the commit of the step did not fail for a cause outside the request
NoFault == last'.msg # <<"OperationalError">>

\* no other session changed the row since session s loaded it
Unraced(s) == Find(rows, sess[s].id) = <<sess[s].loaded>>

Ids(rs) == {r.id : r \in rs}

CreatedOk(resp) ==
  resp.op \in {"create", "model_create"} /\ resp.exc = "none" /\ Len(resp.body) = 1

\* C1: every successful create returns a positive id that exactly one live
\* row (the new one) carries, and no two live rows share an id.
C1_UniquePositiveIds ==
  /\ \A r1, r2 \in rows : r1.id = r2.id => r1 = r2
  /\ \A r \in rows : Val(r.id) > 0
  /\ CreatedOk(last) =>
       /\ Val(last.body[1].id) > 0
       /\ {r \in rows : r.id = last.body[1].id} = {last.body[1]}

C1_Witness ==
  /\ CreatedOk(last)
  /\ Cardinality(rows) = 2
  /\ last.body[1].id = <<2>>

\* a POST with a JSON content type and all seven keys whose commit did not
\* fail for an outside cause
C2_Sent(resp) ==
  /\ resp.op = "create"
  /\ resp.status # HTTP_415_UNSUPPORTED_MEDIA_TYPE
  /\ FieldSet \subseteq DOMAIN resp.data
  /\ resp.msg # <<"OperationalError">>

\* 201, Location names the read endpoint of the new id, and GET of it (and
\* find) gives the seven values sent
C2_RoundTripOK(resp) ==
  /\ resp.status = HTTP_201_CREATED
  /\ Len(resp.body) = 1
  /\ resp.location = <<"recommendations", Val(resp.body[1].id)>>
  /\ LET got == GetRecommendations(rows, resp.location[2])
     IN  /\ got.status = HTTP_200_OK
         /\ \A f \in FieldSet : got.body[1][f] = resp.data[f]
  /\ Find(rows, resp.location[2]) # NULL
  /\ \A f \in FieldSet : Val(Find(rows, resp.location[2]))[f] = resp.data[f]

C3_Expected(old, data) ==
  [c \in Columns |-> IF c \in FieldSet /\ c \in DOMAIN data THEN data[c] ELSE old[c]]

C3_Commit(s) == CommitBy(s, {"update"}) /\ Unraced(s) /\ NoFault

C3_Effect(s) ==
  LET old == sess[s].loaded
      new == C3_Expected(old, sess[s].data)
  IN  /\ last'.status = HTTP_200_OK
      /\ last'.body = <<new>>
      /\ rows' = (rows \ {old}) \cup {new}
      /\ GetRecommendations(rows', sess[s].id).status = HTTP_200_OK
      /\ GetRecommendations(rows', sess[s].id).body = <<new>>

C4_IdImmutable ==
  [][(\A s \in Sessions :
        ~CommitBy(s, {"create", "model_create", "delete", "delete_pair"}))
       => /\ Ids(rows') = Ids(rows)
          /\ Cardinality(rows') = Cardinality(rows)
          /\ \A r \in rows : \E r2 \in rows' :
               /\ r2.id = r.id
               /\ r2 # r => \E s \in Sessions :
                    CommitBy(s, {"update", "link", "like", "dislike"}) /\ r.id = <<sess[s].id>>]_vars

C4_Witness ==
  /\ last.op = "update"
  /\ last.status = HTTP_200_OK
  /\ last.data = [id |-> <<2>>, customer_id |-> <<0>>]
  /\ last.body[1].id = <<1>>
  /\ last.body[1].customer_id = <<0>>
  /\ last.body[1].product_id = <<101>>

\* C5: the commit of a DELETE of a live row removes exactly that row: one
\* row fewer, the others unchanged, GET answers 404, find is absent and no
\* list result holds the id.
C5_DeleteEffect ==
  [][\A s \in Sessions :
       (/\ CommitBy(s, {"delete"})
        /\ last'.status = HTTP_204_NO_CONTENT
        /\ Find(rows, sess[s].id) # NULL)
         => /\ rows' = rows \ {Val(Find(rows, sess[s].id))}
            /\ Cardinality(rows') = Cardinality(rows) - 1
            /\ GetRecommendations(rows', sess[s].id).status = HTTP_404_NOT_FOUND
            /\ Find(rows', sess[s].id) = NULL
            /\ \A args \in ListQueries :
                 \A item \in ListResult(rows', args).items : item.id # <<sess[s].id>>]_vars

C5_Witness ==
  /\ last.op = "delete"
  /\ last.status = HTTP_204_NO_CONTENT
  /\ Cardinality(rows) = 1
  /\ seq = 3

\* a like / dislike answered without a commit
NoCommitAnswer(op) ==
  /\ last'.n # last.n
  /\ last'.op = op
  /\ sess' = sess
  /\ Find(rows, last'.id) # NULL

\* C6: on a live row with rec_success = v, like answers 200 and leaves v+1
\* if v < 100, v otherwise; dislike answers 200 and leaves v-1 if v > 0,
\* v otherwise; nothing else changes and the body carries the new value.
C6_LikeDislike ==
  [][/\ \A s \in Sessions :
          (CommitBy(s, {"like", "dislike"}) /\ Unraced(s) /\ NoFault)
            => LET old == sess[s].loaded
                   v == Val(old.rec_success)
                   new == [old EXCEPT !.rec_success =
                             <<IF sess[s].op = "like" THEN v + 1 ELSE v - 1>>]
               IN  /\ IF sess[s].op = "like" THEN v < 100 ELSE v > 0
                   /\ last'.status = HTTP_200_OK
                   /\ last'.body = <<new>>
                   /\ rows' = (rows \ {old}) \cup {new}
     /\ NoCommitAnswer("like")
          => /\ Val(Val(Find(rows, last'.id)).rec_success) >= 100
             /\ last'.status = HTTP_200_OK
             /\ last'.body = Find(rows, last'.id)
             /\ rows' = rows
     /\ NoCommitAnswer("dislike")
          => /\ Val(Val(Find(rows, last'.id)).rec_success) <= 0
             /\ last'.status = HTTP_200_OK
             /\ last'.body = Find(rows, last'.id)
             /\ rows' = rows]_vars

C6_Witness ==
  /\ last.op = "like"
  /\ last.status = HTTP_200_OK
  /\ last.body[1].rec_success = <<100>>
  /\ last.body[1].product_id = <<101>>
  /\ last.n = 3

\* C7: rec_success values that start within [0, 100] and are changed by like
\* and dislike requests only stay within [0, 100].
C7_InRange == \A r \in rows : Val(r.rec_success) >= 0 /\ Val(r.rec_success) <= 100

C7_Witness ==
  /\ last.n = 3
  /\ last.op = "dislike"
  /\ last.status = HTTP_200_OK
  /\ last.body[1].rec_success = <<0>>
  /\ \E r \in rows : r.rec_success = <<100>>

\* C8: the commit of a like / dislike writes the value computed from the
\* rec_success the handler read, whatever the row holds by then, and answers
\* 200: of two likes that both read v, the second commit leaves v+1.
C8_LostUpdate ==
  [][\A s \in Sessions :
       (/\ CommitBy(s, {"like", "dislike"})
        /\ NoFault
        /\ Find(rows, sess[s].id) # NULL)
         => /\ last'.status = HTTP_200_OK
            /\ Val(Find(rows', sess[s].id)).rec_success = sess[s].obj.rec_success
            /\ last'.body = Find(rows', sess[s].id)
            /\ (/\ sess[s].op = "like"
                /\ Val(Find(rows, sess[s].id)).rec_success =
                     <<Val(sess[s].loaded.rec_success) + 1>>) => rows' = rows]_vars

\* one like has committed v+1 while another like that read v is still to commit
C8_Witness ==
  \E s \in Sessions :
    /\ sess[s].pc = "commit"
    /\ sess[s].op = "like"
    /\ last.op = "like"
    /\ last.status = HTTP_200_OK
    /\ last.id = sess[s].id
    /\ Find(rows, sess[s].id) # NULL
    /\ Val(Find(rows, sess[s].id)).rec_success = <<Val(sess[s].loaded.rec_success) + 1>>

\* C9: a create, update or delete whose commit fails raises the error and
\* leaves the table as it was, whatever the handler had changed in memory.
C9_FailedCommitRollsBack ==
  [][\A s \in Sessions :
       (/\ CommitBy(s, {"create", "model_create", "update", "link", "like",
                        "dislike", "delete"})
        /\ last'.msg \in {<<"OperationalError">>, <<"IntegrityError">>, <<"StaleDataError">>})
         => /\ rows' = rows
            /\ last'.exc = "DataValidationError"
            /\ last'.body = <<>>]_vars

C9_Witness ==
  /\ last.op = "update"
  /\ last.exc = "DataValidationError"
  /\ last.msg = <<"OperationalError">>
  /\ last.data = [product_name |-> <<"">>, rec_success |-> <<0>>]
  /\ \E r \in rows : r.id = <<last.id>> /\ r.product_name = <<"laptop">>

ByIdOps == {"get", "update", "link", "like", "dislike", "delete"}

\* C10: a by-id request (the PUT update sent as JSON) on an id no live row
\* has is answered 404 without a commit, and the table is unchanged.
C10_NotFound ==
  [][/\ (/\ last'.n # last.n
         /\ sess' = sess
         /\ last'.op \in ByIdOps
         /\ last'.status # HTTP_415_UNSUPPORTED_MEDIA_TYPE
         /\ Find(rows, last'.id) = NULL)
          => last'.status = HTTP_404_NOT_FOUND /\ rows' = rows
     /\ \A s \in Sessions :
          (sess[s].pc = "idle" /\ sess'[s].pc = "commit" /\ sess'[s].op \in ByIdOps)
            => Find(rows, sess'[s].id) # NULL]_vars

C10_Witness ==
  /\ last.op = "delete"
  /\ last.status = HTTP_404_NOT_FOUND
  /\ last.id = 1
  /\ Cardinality(rows) = 1

\* C11 as stated: DELETE /recommendations/{id} answers 204 whether or not
\* the id is live.
C11_Original ==
  (last.op = "delete" /\ last.exc = "none") => last.status = HTTP_204_NO_CONTENT

\* the step answers a DELETE by id that found no row
C11_AbsentAnswer ==
  last'.n # last.n /\ last'.op = "delete" /\ sess' = sess

\* C11: DELETE /recommendations/{id} answers 204 with an empty body and
\* removes the row when the id is live, and answers 404 leaving the table
\* unchanged when it is not: a second DELETE of the id right after a first
\* one answers 404.
C11_DeleteTwice ==
  [][/\ \A s \in Sessions :
          (CommitBy(s, {"delete"}) /\ NoFault)
            => /\ last'.status = HTTP_204_NO_CONTENT
               /\ last'.body = <<>>
               /\ \A r \in rows' : r.id # <<sess[s].id>>
     /\ C11_AbsentAnswer
          => /\ \A r \in rows : r.id # <<last'.id>>
             /\ last'.status = HTTP_404_NOT_FOUND
             /\ rows' = rows
     /\ (last.op = "delete" /\ last.status = HTTP_204_NO_CONTENT)
          => /\ \A r \in rows : r.id # <<last.id>>
             /\ \A s \in Sessions :
                  (sess[s].pc = "idle" /\ sess'[s].pc = "commit" /\ sess'[s].op = "delete")
                    => sess'[s].id # last.id]_vars

\* of two rows, the first was deleted by the first request and the second
\* request, a DELETE of the same id, is answered 404
C11_Witness ==
  /\ last.n = 2
  /\ last.op = "delete"
  /\ last.status = HTTP_404_NOT_FOUND
  /\ last.id = 1
  /\ rows = {SeedRow(2, PZero, 0)}

\* the rows that carry both values of a pair
PairMatching(rs, pair) ==
  {r \in rs : <<r.product_id, r.recommend_product_id>> =
              <<pair.product_id, pair.recommend_product_id>>}

\* session s goes on to the commit of a delete-by-pair
PairFound(s) ==
  sess[s].pc = "idle" /\ sess'[s].pc = "commit" /\ sess'[s].op = "delete_pair"

\* the step answers a delete-by-pair that found no row
PairAbsentAnswer ==
  last'.n # last.n /\ last'.op = "delete_pair" /\ sess' = sess

\* C12: a delete-by-pair that finds a live row with both values removes
\* exactly one row, which carries the pair, leaves every other row (those
\* with the same pair included) as it was, and answers 204; when no row
\* carries the pair it answers 404 and the table is unchanged.
C12_DeleteByPair ==
  [][/\ \A s \in Sessions :
          PairFound(s) => sess'[s].obj \in PairMatching(rows, sess'[s].data)
     /\ \A s \in Sessions :
          (CommitBy(s, {"delete_pair"}) /\ NoFault /\ sess[s].loaded \in rows)
            => /\ last'.status = HTTP_204_NO_CONTENT
               /\ last'.body = <<>>
               /\ \E r \in PairMatching(rows, sess[s].data) : rows' = rows \ {r}
               /\ Cardinality(rows') = Cardinality(rows) - 1
     /\ PairAbsentAnswer
          => /\ PairMatching(rows, last'.data) = {}
             /\ last'.status = HTTP_404_NOT_FOUND
             /\ rows' = rows]_vars

\* of two rows with the pair (101, 301), one was deleted and the other is live
C12_Witness ==
  /\ last.n = 1
  /\ last.op = "delete_pair"
  /\ last.status = HTTP_204_NO_CONTENT
  /\ last.data = Pair(101, 301)
  /\ rows = {SeedRow(2, PLaptop, 99)}

\* C13 as stated: in every state of the table, the DELETE that follows a
\* 204 of a delete-by-pair with the same pair is answered 404, so it never
\* finds a row to delete.
C13_Original ==
  [][(last.op = "delete_pair" /\ last.status = HTTP_204_NO_CONTENT)
       => /\ \A s \in Sessions : PairFound(s) => sess'[s].data # last.data
          /\ (PairAbsentAnswer /\ last'.data = last.data)
               => last'.status = HTTP_404_NOT_FOUND]_vars

\* C13: a delete-by-pair that answers 204 for the only live row that carried
\* the pair leaves none that carries it, and the DELETE with the same pair
\* that follows is answered 404; it deletes again only when another live
\* row carries the pair.
C13_SecondDelete ==
  [][/\ \A s \in Sessions :
          (/\ CommitBy(s, {"delete_pair"})
           /\ last'.status = HTTP_204_NO_CONTENT
           /\ PairMatching(rows, sess[s].data) = {sess[s].loaded})
            => PairMatching(rows', sess[s].data) = {}
     /\ (last.op = "delete_pair" /\ last.status = HTTP_204_NO_CONTENT)
          => /\ \A s \in Sessions :
                  (PairFound(s) /\ sess'[s].data = last.data)
                    => sess'[s].obj \in PairMatching(rows, last.data)
             /\ (PairAbsentAnswer /\ last'.data = last.data)
                  => /\ PairMatching(rows, last.data) = {}
                     /\ last'.status = HTTP_404_NOT_FOUND
                     /\ rows' = rows]_vars

\* the row with the pair (101, 301) was deleted by the first request and the
\* second request, with the same pair, is answered 404
C13_Witness ==
  /\ last.n = 2
  /\ last.op = "delete_pair"
  /\ last.status = HTTP_404_NOT_FOUND
  /\ last.data = Pair(101, 301)
  /\ rows = {SeedRow(2, PZero, 0)}

----------------------------------------------------------------------------
(* Properties of GET /recommendations *)

IntFilters == {"product_id", "customer_id", "recommend_product_id"}

StrFilters == {"recommend_type", "product_name", "recommendation_name"}

RangeBounds == {"rec_success_min", "rec_success_max"}

TheThreeTypes == {"Up-Sell", "Down-Sell", "Cross-Sell"}

\* a non-negative integer string: one decimal digit or more
IsNat(str) ==
  /\ Len(str) > 0
  /\ \A i \in 1..Len(str) : str[i] \in {"0", "1", "2", "3", "4", "5", "6", "7", "8", "9"}

\* the parameter is in the query string, whatever its value
Present(args, k) == k \in DOMAIN args

\* the parameter is in the query string with a value that is not empty
NonEmpty(args, k) == k \in DOMAIN args /\ Len(args[k]) > 0

\* the records of the response body
Items(resp) == {resp.body[i] : i \in 1..Len(resp.body)}

\* every parameter of the query string holds a value valid for its filter
AllValid(args) ==
  /\ \A k \in IntFilters \cup RangeBounds : Present(args, k) => IsNat(args[k])
  /\ Present(args, "recommend_type") => args["recommend_type"] \in TheThreeTypes
  /\ (Present(args, "rec_success_min") /\ Present(args, "rec_success_max"))
       => ToInt(args["rec_success_min"]) <= ToInt(args["rec_success_max"])

\* the record satisfies the filter of every parameter of the query string
SatisfiesAll(r, args) ==
  /\ \A k \in IntFilters : Present(args, k) => Val(r[k]) = ToInt(args[k])
  /\ \A k \in StrFilters : Present(args, k) => Val(r[k]) = args[k]
  /\ Present(args, "rec_success_min") => Val(r.rec_success) >= ToInt(args["rec_success_min"])
  /\ Present(args, "rec_success_max") => Val(r.rec_success) <= ToInt(args["rec_success_max"])

\* C14 as stated: when every filter of the query string is valid, the answer
\* is 200 with exactly the live records that satisfy every one of them.
C14_Original ==
  (last.op = "list" /\ AllValid(last.data))
    => /\ last.status = HTTP_200_OK
       /\ Items(last) = {r \in rows : SatisfiesAll(r, last.data)}

\* every parameter that is not empty holds a value valid for its filter; the
\* range is looked at only when both of its bounds are not empty
ValidWhereApplied(args) ==
  /\ \A k \in IntFilters : NonEmpty(args, k) => IsNat(args[k])
  /\ NonEmpty(args, "recommend_type") => args["recommend_type"] \in TheThreeTypes
  /\ (NonEmpty(args, "rec_success_min") /\ NonEmpty(args, "rec_success_max"))
       => /\ IsNat(args["rec_success_min"])
          /\ IsNat(args["rec_success_max"])
          /\ ToInt(args["rec_success_min"]) <= ToInt(args["rec_success_max"])

SatisfiesApplied(r, args) ==
  /\ \A k \in IntFilters : NonEmpty(args, k) => Val(r[k]) = ToInt(args[k])
  /\ \A k \in StrFilters : NonEmpty(args, k) => Val(r[k]) = args[k]
  /\ (NonEmpty(args, "rec_success_min") /\ NonEmpty(args, "rec_success_max"))
       => /\ Val(r.rec_success) >= ToInt(args["rec_success_min"])
          /\ Val(r.rec_success) <= ToInt(args["rec_success_max"])

\* C14: when every filter given with a value that is not empty is valid, the
\* answer is 200 with exactly the live records, each once, that satisfy all
\* of them: equality for the six fields, the range only when both bounds are
\* given; a parameter with an empty value, a bound without the other one and
\* an unknown parameter filter nothing, and without filters every live
\* record is returned.
C14_ListFilters ==
  (last.op = "list" /\ ValidWhereApplied(last.data))
    => /\ last.status = HTTP_200_OK
       /\ Items(last) = {r \in rows : SatisfiesApplied(r, last.data)}
       /\ Len(last.body) = Cardinality(Items(last))
       /\ (\A k \in DOMAIN last.data : ~NonEmpty(last.data, k) \/ k = "unknown")
            => Items(last) = rows

\* two filters at once: of two records named "mouse", the Up-Sell one
C14_Witness ==
  /\ last.op = "list"
  /\ last.data = [recommendation_name |-> "mouse", recommend_type |-> "Up-Sell"]
  /\ last.status = HTTP_200_OK
  /\ Cardinality(rows) = 2
  /\ last.body = <<SeedRow(2, PUpSell, 50)>>

\* the query string without the two range bounds
OtherFilters(args) == [k \in DOMAIN args \ RangeBounds |-> args[k]]

\* both range bounds are non-negative integers and the other filters given
\* are valid
C15_Applies(args) ==
  /\ \A k \in RangeBounds : Present(args, k) /\ IsNat(args[k])
  /\ ValidWhereApplied(OtherFilters(args))

\* C15: with both bounds given as non-negative integers (and the other
\* filters valid), min > max is answered 400 "rec_success_min cannot be
\* greater than rec_success_max" without a list; otherwise the records
\* returned are those that pass the other filters and have
\* min <= rec_success <= max, both bounds included.
C15_Range ==
  (last.op = "list" /\ C15_Applies(last.data))
    => LET min_val == ToInt(last.data["rec_success_min"])
           max_val == ToInt(last.data["rec_success_max"])
       IN  IF min_val > max_val
             THEN /\ last.status = HTTP_400_BAD_REQUEST
                  /\ last.msg = <<"rec_success_min cannot be greater than rec_success_max">>
                  /\ last.body = <<>>
             ELSE /\ last.status = HTTP_200_OK
                  /\ Items(last) =
                       {r \in rows : /\ SatisfiesApplied(r, OtherFilters(last.data))
                                     /\ min_val <= Val(r.rec_success)
                                     /\ Val(r.rec_success) <= max_val}

\* min = 90 > max = 10, with a product_name filter that a live record passes
C15_Witness ==
  /\ last.op = "list"
  /\ last.data = [rec_success_min |-> <<"9", "0">>, rec_success_max |-> <<"1", "0">>,
                  product_name |-> "laptop"]
  /\ last.status = HTTP_400_BAD_REQUEST
  /\ \E r \in rows : r.product_name = <<"laptop">>
  /\ last.body = <<>>

\* the parameter is present and its value is not a non-negative integer string
InvalidInt(args, k) == Present(args, k) /\ ~IsNat(args[k])

\* every parameter other than k holds a valid value
OthersValid(args, k) ==
  /\ \A j \in (IntFilters \cup RangeBounds) \ {k} : Present(args, j) => IsNat(args[j])
  /\ Present(args, "recommend_type") => args["recommend_type"] \in TheThreeTypes

\* C16 as stated: an integer filter that is present with a value that is not
\* a non-negative integer string is answered 400 with a message that names
\* the field, and no list.
C16_Original ==
  last.op = "list"
    => \A k \in IntFilters \cup RangeBounds :
         (InvalidInt(last.data, k) /\ OthersValid(last.data, k))
           => /\ last.status = HTTP_400_BAD_REQUEST
              /\ last.msg = <<"Invalid ", k>>
              /\ last.body = <<>>

\* the order in which the handler checks its parameters
CheckOrder == <<"product_id", "customer_id", "recommend_type", "recommend_product_id">>

\* the check of parameter k passes: it is empty or absent, or valid
Passes(args, k) ==
  ~NonEmpty(args, k)
    \/ IF k = "recommend_type" THEN args[k] \in TheThreeTypes ELSE IsNat(args[k])

\* the checks made before the i-th one pass
EarlierPass(args, i) == \A j \in 1..(i - 1) : Passes(args, CheckOrder[j])

\* str.isdigit() is false: some character is not a digit
NotDigits(str) == \E i \in 1..Len(str) : str[i] \notin DigitChars

BothBounds(args) == NonEmpty(args, "rec_success_min") /\ NonEmpty(args, "rec_success_max")

\* C16: product_id, customer_id and recommend_product_id, when not empty and
\* holding a character that is not a digit, are answered 400 "Invalid
\* <field>" without a list, provided the checks before it pass; the range
\* bounds are checked last and only when both are not empty, and answered
\* 400 "Invalid range :()"; an empty value and a bound without the other
\* are not checked; digits that int() rejects are answered 500.
C16_IntFilters ==
  last.op = "list"
    => LET args == last.data
       IN  /\ \A i \in {1, 2, 4} :
                (NonEmpty(args, CheckOrder[i]) /\ EarlierPass(args, i))
                  => IF NotDigits(args[CheckOrder[i]])
                       THEN /\ last.status = HTTP_400_BAD_REQUEST
                            /\ last.msg = <<"Invalid ", CheckOrder[i]>>
                            /\ last.body = <<>>
                     ELSE ~IsNat(args[CheckOrder[i]])
                            => /\ last.status = HTTP_500_INTERNAL_SERVER_ERROR
                               /\ last.body = <<>>
           /\ (BothBounds(args) /\ EarlierPass(args, 5))
                => IF NotDigits(args["rec_success_min"]) \/ NotDigits(args["rec_success_max"])
                     THEN /\ last.status = HTTP_400_BAD_REQUEST
                          /\ last.msg = <<"Invalid range :()">>
                          /\ last.body = <<>>
                   ELSE (~IsNat(args["rec_success_min"]) \/ ~IsNat(args["rec_success_max"]))
                          => /\ last.status = HTTP_500_INTERNAL_SERVER_ERROR
                             /\ last.body = <<>>
           /\ (~BothBounds(args) /\ EarlierPass(args, 5))
                => last.status = HTTP_200_OK

\* both bounds given, the lower one not a number: 400 "Invalid range :()"
C16_Witness ==
  /\ last.op = "list"
  /\ last.data = [rec_success_min |-> <<"l", "o", "w">>, rec_success_max |-> <<"1", "0">>]
  /\ last.status = HTTP_400_BAD_REQUEST
  /\ last.msg = <<"Invalid range :()">>
  /\ rows # {}

\* the answer to a recommend_type outside the three values
InvalidTypeAnswer(resp) ==
  /\ resp.status = HTTP_400_BAD_REQUEST
  /\ resp.msg = <<"Invalid recommend_type. Must be one of ",
                  <<"Up-Sell", "Down-Sell", "Cross-Sell">>>>
  /\ resp.body = <<>>

\* the answer to a recommend_type among the three values, the other filters
\* being valid: the records of that type that pass the other filters
TypeFilterAnswer(resp, rs) ==
  ValidWhereApplied(resp.data)
    => /\ resp.status = HTTP_200_OK
       /\ \A item \in Items(resp) : item.recommend_type = <<resp.data["recommend_type"]>>
       /\ \A r \in rs :
            (r.recommend_type = <<resp.data["recommend_type"]>>
               /\ SatisfiesApplied(r, [k \in DOMAIN resp.data \ {"recommend_type"} |-> resp.data[k]]))
              => r \in Items(resp)

OwnAnswer(resp, rs, r, ks) ==
  /\ resp.status = HTTP_200_OK
  /\ r \in Items(resp)
  /\ \A item \in Items(resp) : \A k \in ks : item[k] = r[k]
  /\ rs = {r} => Len(resp.body) = 1

\* C18: for every live record r, the list filtered by r's own product_id,
\* customer_id, recommend_type and recommend_product_id, or by r's own
\* recommend_type alone, is answered 200 with r and only records equal to r
\* on those fields, and with r alone when r is the only record.
C18_Original ==
  last.op = "list"
    => \A r \in rows :
         /\ last.data = OwnFilters(r)
              => OwnAnswer(last, rows, r, {"product_id", "customer_id", "recommend_type",
                                           "recommend_product_id"})
         /\ last.data = OwnType(r)
              => OwnAnswer(last, rows, r, {"recommend_type"})

----------------------------------------------------------------------------
(* Properties of the request checks of POST and PUT *)

\* the step answers a request without reaching a commit
AnsweredAtOnce(op) == last'.n # last.n /\ last'.op = op /\ sess' = sess

\* C19: a POST /recommendations or PUT /recommendations/{id} whose
\* Content-Type header is missing or is not exactly "application/json" is
\* answered 415 "Content-Type must be application/json", whatever the body
\* holds and whether or not the id is live, and the table is unchanged.
C19_ContentType ==
  [][/\ \A op \in {"create", "update"} :
          (last'.n # last.n /\ last'.op = op /\ last'.ctype # "application/json")
            => /\ last'.status = HTTP_415_UNSUPPORTED_MEDIA_TYPE
               /\ last'.msg = <<"Content-Type must be ", "application/json">>
               /\ last'.body = <<>>
               /\ sess' = sess
               /\ rows' = rows
               /\ seq' = seq
     /\ \A s \in Sessions :
          (sess[s].pc = "commit" /\ sess[s].op \in {"create", "update"} /\ sess'[s].pc = "idle")
            => last'.ctype = "application/json"]_vars

\* a PUT with a charset parameter on an id that no row has: 415, not 404
C19_Witness ==
  /\ last.op = "update"
  /\ last.ctype = "application/json; charset=utf-8"
  /\ last.status = HTTP_415_UNSUPPORTED_MEDIA_TYPE
  /\ \A r \in rows : r.id # <<last.id>>
  /\ rows # {}

\* the seven fields a body lacks; all of them when it is not an object
Lacking(data) ==
  IF "$type" \in DOMAIN data
    THEN {"customer_id", "product_id", "product_name", "recommend_product_id",
          "recommendation_name", "recommend_type", "rec_success"}
    ELSE {"customer_id", "product_id", "product_name", "recommend_product_id",
          "recommendation_name", "recommend_type", "rec_success"} \ DOMAIN data

\* C20: a POST /recommendations sent as JSON whose body lacks one of the
\* seven fields (rec_success included), or is not an object, fails with a
\* DataValidationError that names a missing field, or says that the body
\* held bad or no data, and no record is created: only a body that is an
\* object with the seven fields reaches the insert.
C20_MissingField ==
  [][/\ (AnsweredAtOnce("create") /\ last'.ctype = "application/json")
          => /\ Lacking(last'.data) # {}
             /\ last'.exc = "DataValidationError"
             /\ last'.body = <<>>
             /\ IF "$type" \in DOMAIN last'.data
                  THEN last'.msg[1] =
                         "Invalid Recommendation: body of request contained bad or no data "
                  ELSE /\ last'.msg[1] = "Invalid Recommendation: missing "
                       /\ last'.msg[2] \in Lacking(last'.data)
             /\ rows' = rows
             /\ seq' = seq
     /\ \A s \in Sessions :
          (sess[s].pc = "idle" /\ sess'[s].pc = "commit" /\ sess'[s].op = "create")
            => Lacking(sess'[s].data) = {}]_vars

\* after a record was created, a body without rec_success is refused
C20_Witness ==
  /\ last.op = "create"
  /\ last.ctype = "application/json"
  /\ last.data = PMissing
  /\ last.exc = "DataValidationError"
  /\ last.msg = <<"Invalid Recommendation: missing ", "rec_success">>
  /\ Cardinality(rows) = 1
  /\ seq = 2

\* a POST sent as JSON whose body lacks a field or is not an object
InputRejected(resp) ==
  resp.op = "create" /\ resp.ctype = "application/json" /\ Lacking(resp.data) # {}

\* the commit of a create, update or delete failed in the database
StorageFailed(resp) ==
  /\ resp.op \in {"create", "model_create", "update", "link", "like", "dislike", "delete"}
  /\ resp.msg \in {<<"OperationalError">>, <<"IntegrityError">>, <<"StaleDataError">>}

\* C21: a write that fails in the database right after a request that was
\* refused for its input raises an error of another kind than that request
\* did.
C21_Original ==
  [][(InputRejected(last) /\ last'.n # last.n /\ StorageFailed(last'))
       => last'.exc # last.exc]_vars

\* a live row carries the id
Live(rs, id) == \E r \in rs : r.id = <<id>>

\* the three refusals the claim orders, for a PUT answered before any commit
C22_Refusal(resp, rs, nobody) ==
  IF resp.ctype # "application/json"
    THEN resp.status = HTTP_415_UNSUPPORTED_MEDIA_TYPE
  ELSE IF ~Live(rs, resp.id)
    THEN resp.status = HTTP_404_NOT_FOUND
  ELSE IF resp.data \in nobody
    THEN /\ resp.status = HTTP_400_BAD_REQUEST
         /\ resp.msg = <<"No data provided for update.">>
  ELSE IF resp.data = [k \in {"$raw"} |-> <<"">>]
    THEN /\ resp.status = HTTP_400_BAD_REQUEST
         /\ resp.msg # <<"No data provided for update.">>
  ELSE FALSE

\* C22 as stated: a PUT without a body is answered "No data provided for
\* update." like a PUT of an empty object.
C22_Original ==
  [][AnsweredAtOnce("update")
       => /\ C22_Refusal(last', rows, {[k \in {} |-> <<>>], [k \in {"$type"} |-> <<"NoneType">>],
                                       [k \in {"$raw"} |-> <<"">>]})
          /\ rows' = rows]_vars

\* C22: a PUT /recommendations/{id} is refused in a fixed order: 415 when
\* the content type is not application/json, whether or not the id is live;
\* else 404 when the id is not live, whatever the body; else 400 "No data
\* provided for update." when the body is the empty object or null, and 400
\* with the JSON parser's own message when the request has no body at all.
\* A refused PUT changes no row, and every other PUT reaches its commit.
C22_UpdateChecks ==
  [][/\ AnsweredAtOnce("update")
          => /\ C22_Refusal(last', rows, {[k \in {} |-> <<>>], [k \in {"$type"} |-> <<"NoneType">>]})
             /\ rows' = rows
             /\ seq' = seq
     /\ \A s \in Sessions :
          (sess[s].pc = "idle" /\ sess'[s].pc = "commit" /\ sess'[s].op = "update")
            => /\ sess'[s].ctype = "application/json"
               /\ Live(rows, sess'[s].id)
               /\ DOMAIN sess'[s].data \cap Columns # {}]_vars

\* a PUT of an empty object on an id that no row has, while another id is live
C22_Witness ==
  /\ last.op = "update"
  /\ last.ctype = "application/json"
  /\ last.data = [k \in {} |-> <<>>]
  /\ last.status = HTTP_404_NOT_FOUND
  /\ ~Live(rows, last.id)
  /\ rows # {}

\* the row a link leaves: only recommend_product_id takes the path value
C23_Linked(old, data) ==
  [c \in Columns |-> IF c = "recommend_product_id" THEN data.recommend_product_id ELSE old[c]]

\* C23: a link request on a live record, whose row no other request changed
\* meanwhile and whose commit does not fail, sets the row's
\* recommend_product_id to the path value and nothing else: the other six
\* fields, the id and every other row are as before, and the answer is 200
\* with the record. On a row that already holds the value (the same link
\* applied again) the table is left as it is. A link on a live record is
\* never answered without its commit.
C23_Link ==
  [][/\ \A s \in Sessions :
          (CommitBy(s, {"link"}) /\ NoFault /\ Unraced(s))
            => /\ rows' = (rows \ {sess[s].loaded})
                            \cup {C23_Linked(sess[s].loaded, sess[s].data)}
               /\ sess[s].loaded.recommend_product_id = sess[s].data.recommend_product_id
                    => rows' = rows
               /\ seq' = seq
               /\ last'.status = HTTP_200_OK
               /\ last'.body = <<C23_Linked(sess[s].loaded, sess[s].data)>>
     /\ AnsweredAtOnce("link")
          => /\ ~Live(rows, last'.id)
             /\ last'.status = HTTP_404_NOT_FOUND
             /\ rows' = rows]_vars

\* the third request is a link answered 200 on the only record, which an
\* earlier request created and the request between them may have linked
C23_Witness ==
  /\ last.n = 3
  /\ last.op = "link"
  /\ last.status = HTTP_200_OK
  /\ last.data = [recommend_product_id |-> <<302>>]
  /\ rows = {last.body[1]}
  /\ last.body[1] = [c \in Columns |-> IF c = "id" THEN <<1>>
                                       ELSE IF c = "recommend_product_id" THEN <<302>>
                                       ELSE PLaptop[c]]

\* the PUT endpoints that carry no body
BodilessPuts == {"link", "like", "dislike"}

\* C24 as stated: every PUT whose Content-Type is not exactly
\* application/json is answered 415.
C24_Original ==
  (last.op \in BodilessPuts \cup {"update"} /\ last.ctype # "application/json")
    => last.status = HTTP_415_UNSUPPORTED_MEDIA_TYPE

\* C24: of the PUT endpoints only PUT /recommendations/{id} checks the
\* Content-Type header: it answers 415 exactly when the header is not
\* application/json. The link, like and dislike endpoints do not read the
\* header: they never answer 415, they answer 404 exactly when the id is not
\* live, and with a live id they go on whatever the header is or when it is
\* missing.
C24_PutContentType ==
  [][/\ (last'.n # last.n /\ last'.op = "update")
          => (last'.status = HTTP_415_UNSUPPORTED_MEDIA_TYPE
                <=> last'.ctype # "application/json")
     /\ \A op \in BodilessPuts :
          /\ (last'.n # last.n /\ last'.op = op)
               => last'.status # HTTP_415_UNSUPPORTED_MEDIA_TYPE
          /\ AnsweredAtOnce(op)
               => /\ last'.status = HTTP_404_NOT_FOUND <=> ~Live(rows, last'.id)
                  /\ last'.status = HTTP_200_OK <=> Live(rows, last'.id)
                  /\ op # "link" \/ ~Live(rows, last'.id)]_vars

\* a link sent as text/plain is answered 200 with the record linked
C24_Witness ==
  /\ last.op = "link"
  /\ last.ctype = "text/plain"
  /\ last.status = HTTP_200_OK
  /\ last.body[1].recommend_product_id = <<302>>
  /\ last.body[1] \in rows

\* C25: a delete by pair whose commit fails leaves the table as it was and
\* raises the error that a failed delete by id raises (the database
\* exception caught and wrapped after the rollback).
C25_Original ==
  [][\A s \in Sessions :
       (CommitBy(s, {"delete_pair"}) /\ last'.msg = <<"OperationalError">>)
         => /\ rows' = rows
            /\ last'.exc = StorageFailure("delete", 0, EmptyBody, "OperationalError").exc]_vars

\* the requests that only read
ReadOnly == {"health", "get", "list"}

\* C26: a GET /health, a GET /recommendations (answered 200, 400 or
\* otherwise) and a GET /recommendations/{id} (answered 200 or 404) leave
\* the rows of the table, the id sequence and the requests in flight as they
\* were; GET /health answers 200 with status 200 and message "Healthy"
\* whatever the table holds.
C26_ReadOnly ==
  [][(last'.n # last.n /\ last'.op \in ReadOnly)
       => /\ rows' = rows
          /\ seq' = seq
          /\ sess' = sess
          /\ last'.op = "health"
               => /\ last'.status = HTTP_200_OK
                  /\ last'.body = <<[status |-> 200, message |-> "Healthy"]>>
          /\ last'.op = "get"
               => last'.status = IF Live(rows, last'.id) THEN HTTP_200_OK
                                  ELSE HTTP_404_NOT_FOUND]_vars

\* a health check while a record is live and a write is in flight
C26_Witness ==
  /\ last.op = "health"
  /\ last.status = HTTP_200_OK
  /\ Cardinality(rows) = 1
  /\ \E s \in Sessions : sess[s].pc = "commit"

\* C27: the commit of a create (POST, or create() on an object that carries
\* a preset id) that succeeds adds exactly one row, whose id no live row
\* had, and leaves every row that was live as it was; one that fails leaves
\* the table as it was. An id in the body or on the object never makes the
\* create fail or replace a row: unless the commit fails for an outside cause
\* or a value is null, the create succeeds.
C27_CreateAdds ==
  [][\A s \in Sessions :
       CommitBy(s, {"create", "model_create"})
         => /\ IF last'.exc = "none"
                 THEN /\ rows \subseteq rows'
                      /\ Cardinality(rows') = Cardinality(rows) + 1
                      /\ rows' \ rows = {last'.body[1]}
                      /\ last'.body[1].id \notin Ids(rows)
                 ELSE rows' = rows
            /\ (NoFault /\ \A f \in FieldSet : sess[s].obj[f] # NULL)
                 => last'.exc = "none"]_vars

\* a POST whose body carries "id": 1 while the record with id 1 is live:
\* answered 201 with id 2, and the record with id 1 is still there
C27_Witness ==
  /\ last.op = "create"
  /\ last.data = PWithId
  /\ last.status = HTTP_201_CREATED
  /\ last.body[1].id = <<2>>
  /\ Cardinality(rows) = 2
  /\ \E r \in rows : r.id = <<1>> /\ r # last.body[1]

\* the requests that change a record they loaded
Writers == {"update", "link", "like", "dislike"}

\* C28: the commit of an update, link, like or dislike whose record was
\* deleted after the request loaded it writes nothing and is not answered
\* 200: the deleted id does not come back. An id that is not live becomes
\* live only by the commit of a create that is assigned it.
C28_NoResurrection ==
  [][/\ \A s \in Sessions :
          (CommitBy(s, Writers) /\ ~Live(rows, sess[s].id))
            => /\ rows' = rows
               /\ last'.status # HTTP_200_OK
     /\ \A r \in rows' :
          r.id \notin Ids(rows)
            => /\ \E s \in Sessions : CommitBy(s, {"create", "model_create"})
               /\ last'.body = <<r>>]_vars

\* the only record was created, loaded by a like, deleted, and then the like
\* committed: its UPDATE matched no row and the table stays empty
C28_Witness ==
  /\ last.n = 3
  /\ last.op = "like"
  /\ last.msg = <<"StaleDataError">>
  /\ rows = {}
  /\ seq = 2

\* exactly one of the two bounds has a non-empty value
LoneBound(args) ==
  NonEmpty(args, "rec_success_min") # NonEmpty(args, "rec_success_max")

\* the same request without the two range parameters
WithoutBounds(args) ==
  [k \in DOMAIN args \ {"rec_success_min", "rec_success_max"} |-> args[k]]

\* C29: a GET /recommendations in which one of rec_success_min and
\* rec_success_max has a value and the other is missing or empty is answered
\* as the same request without the range parameters is: two such requests
\* that follow each other get the same status, the same message and the
\* same records, even when the value of the bound is not an integer.
C29_LoneBound ==
  [][(/\ last.op = "list"
      /\ last'.op = "list"
      /\ last'.n # last.n
      /\ LoneBound(last.data)
      /\ last'.data = WithoutBounds(last.data))
       => /\ rows' = rows
          /\ last'.status = last.status
          /\ last'.msg = last.msg
          /\ Items(last') = Items(last)]_vars

\* rec_success_min=low alone is answered 200 with both records of the table
C29_Witness ==
  /\ last.op = "list"
  /\ last.data = [rec_success_min |-> <<"l", "o", "w">>]
  /\ last.status = HTTP_200_OK
  /\ Cardinality(rows) = 2
  /\ Items(last) = rows

\* the seven fields of the rows, without their ids
Payloads(rs) == {[f \in FieldSet |-> r[f]] : r \in rs}

\* a call of seed_data begins, answered at once or not
SeedBegins(s) == sess[s].pc = "idle" /\ (sess'[s].op = "seed" \/ AnsweredAtOnce("seed"))

\* C30 as stated: a call on a table that holds a record changes nothing,
\* and a call on an empty table ends with exactly 10 records.
C30_Original ==
  [][\A s \in Sessions :
       /\ (SeedBegins(s) /\ rows # {}) => (rows' = rows /\ AnsweredAtOnce("seed"))
       /\ CommitBy(s, {"seed"}) => Cardinality(rows') = 10]_vars

\* C30: seed_data called on a table that holds at least one record changes
\* nothing; called on an empty table it inserts the samples one commit at a
\* time, and when it returns the table holds exactly the 10 samples, so a
\* call after a call that returned changes nothing. When the commit of
\* sample i fails the call raises and leaves the i - 1 samples committed
\* before: fewer than 10, which a later call completes only if none was
\* committed.
C30_SeedData ==
  [][\A s \in Sessions :
       /\ (SeedBegins(s) /\ rows # {}) => (rows' = rows /\ AnsweredAtOnce("seed"))
       /\ (SeedBegins(s) /\ rows = {}) => (rows' = rows /\ sess'[s].pc = "commit")
       /\ CommitBy(s, {"seed"})
            => IF last'.exc = "none"
                 THEN /\ Cardinality(rows') = 10
                      /\ Payloads(rows') = {sample_recommendations[i] : i \in 1..10}
                 ELSE /\ rows' = rows
                      /\ Cardinality(rows') = last'.id - 1
                      /\ Payloads(rows') = {sample_recommendations[i] : i \in 1..(last'.id - 1)}]_vars

\* the second call, on the table the first call seeded, inserted nothing
C30_Witness ==
  /\ last.n = 2
  /\ last.op = "seed"
  /\ last.exc = "none"
  /\ last.id = 0
  /\ Cardinality(rows) = 10

====
